---------------------------- MODULE Spec2Model ----------------------------
(* Model of compress_with_world.py: the chunker, the home dictionary, the  *)
(* run-length bit encoder and decoder, the extras pool and the container   *)
(* layout.  compress() and decompress() are modelled step by step over     *)
(* byte sequences; files are byte sequences on a small model file system.  *)
EXTENDS Integers, Sequences, FiniteSets, TLC

(***************************************************************************)
(* Bounds of the model                                                     *)
(***************************************************************************)
MaxChunks == 2
MaxRunLen == 257
MaxCopies == 8
MaxFields == 3
MaxClicks == 2

(***************************************************************************)
(* Program constants                                                       *)
(***************************************************************************)
CHUNK_SIZE == 18

(***************************************************************************)
(* Byte-sequence helpers (Python bytes / slicing semantics)                *)
(***************************************************************************)
Min(a, b) == IF a < b THEN a ELSE b

Max(a, b) == IF a < b THEN b ELSE a

Pow2(n) == 2 ^ n

\* Python  s * n
Repeat(s, n) ==
    IF n <= 0 \/ s = <<>> THEN <<>>
    ELSE [k \in 1..(n * Len(s)) |-> s[((k - 1) % Len(s)) + 1]]

\* Python s[a:b] for 0 <= a, 0 <= b (0-based, end exclusive, clamped)
Slice(s, a, b) ==
    LET lo == Min(a, Len(s))
        hi == Min(b, Len(s))
    IN  IF hi <= lo THEN <<>> ELSE SubSeq(s, lo + 1, hi)

\* Python  buf[a:b] = chunk  on a bytearray (the length may change)
SliceAssign(buf, a, b, chunk) ==
    LET lo == Min(a, Len(buf))
        hi == Max(lo, Min(b, Len(buf)))
    IN  Slice(buf, 0, lo) \o chunk \o Slice(buf, hi, Len(buf))

\* b''.join(ss) for a list of chunks of k bytes each
JoinChunks(ss, k) ==
    IF ss = <<>> THEN <<>>
    ELSE [m \in 1..(Len(ss) * k) |-> ss[((m - 1) \div k) + 1][((m - 1) % k) + 1]]

RECURSIVE SumSeq(_)
SumSeq(s) == IF s = <<>> THEN 0 ELSE Head(s) + SumSeq(Tail(s))

\* int.to_bytes(k, 'little') / struct.pack('<I'), struct.pack('<Q')
RECURSIVE ToBytesLE(_, _)
ToBytesLE(n, k) ==
    IF k = 0 THEN <<>> ELSE <<n % 256>> \o ToBytesLE(n \div 256, k - 1)

\* int.from_bytes(b, 'little') / struct.unpack
RECURSIVE FromBytesLE(_)
FromBytesLE(b) ==
    IF b = <<>> THEN 0 ELSE Head(b) + 256 * FromBytesLE(Tail(b))

\* bitwise OR of two naturals
RECURSIVE BitOr(_, _)
BitOr(a, b) ==
    IF a = 0 THEN b
    ELSE IF b = 0 THEN a
    ELSE Max(a % 2, b % 2) + 2 * BitOr(a \div 2, b \div 2)

(***************************************************************************)
(* World file and home dictionary                                          *)
(***************************************************************************)
WORLD_MIN_LEN == 32

ConfigError == "world_package.bin must be at least 32 bytes"

\* load_world: the error message, or the (mapping, key) pair
load_world(b) ==
    IF Len(b) < WORLD_MIN_LEN
    THEN [ok |-> FALSE, mapping |-> <<>>, key |-> <<>>]
    ELSE [ok |-> TRUE, mapping |-> Slice(b, 0, 16), key |-> Slice(b, 16, 32)]

\* hashlib.sha256(msg).digest(): an opaque deterministic 32-byte generator;
\* the digests of key||i are pairwise distinct for i in 0..15
\* (the seed is bound once, then the 32 bytes are derived from it)
sha256(msg) ==
    CHOOSE d \in {[k \in 1..32 |-> (seed + 11 * k + 5) % 256] :
                     seed \in {3 * SumSeq(msg) + 37 * msg[Len(msg)]}} : TRUE

gen_home_from_key(key) ==
    [n \in 1..16 |-> Slice(sha256(key \o <<n - 1>>), 0, CHUNK_SIZE)]

\* home_index = {h: i for i, h in enumerate(home)}; -1 stands for "not in"
home_index(hm, c) ==
    LET hits == {n \in 1..16 : hm[n] = c}
    IN  IF hits = {} THEN -1
        ELSE (CHOOSE n \in hits : \A m \in hits : m <= n) - 1

(***************************************************************************)
(* Chunker                                                                 *)
(***************************************************************************)
\* [d[i:i+k] for i in range(0, len(d), k)]
SplitBy(d, k) ==
    IF d = <<>> THEN <<>>
    ELSE [m \in 1..((Len(d) + k - 1) \div k) |-> Slice(d, (m - 1) * k, m * k)]

\* variant: a whole chunk of padding when the length is already a multiple
chunk_file_AlwaysPads(d) ==
    LET orig == Len(d)
        pad == CHUNK_SIZE - (orig % CHUNK_SIZE)
    IN  [chunks |-> SplitBy(d \o Repeat(<<0>>, pad), CHUNK_SIZE),
         orig_len |-> orig]

chunk_file(d) ==
    LET orig == Len(d)
        pad == (CHUNK_SIZE - (orig % CHUNK_SIZE)) % CHUNK_SIZE
        padded == IF pad # 0 THEN d \o Repeat(<<0>>, pad) ELSE d
    IN  [chunks |-> SplitBy(padded, CHUNK_SIZE), orig_len |-> orig]

(***************************************************************************)
(* Classification of the chunks (compress, first loop)                     *)
(***************************************************************************)
\* types: the home index of the chunk when it is in home_index, else 15
ClassifyTypes(hm, cs) ==
    IF cs = <<>> THEN <<>>
    ELSE [n \in 1..Len(cs) |->
            IF home_index(hm, cs[n]) # -1 THEN home_index(hm, cs[n]) ELSE 15]

\* extras: the chunks of the else branch, in encounter order
ClassifyExtras(hm, cs) ==
    SelectSeq(cs, LAMBDA c : home_index(hm, c) = -1)

(***************************************************************************)
(* Bit writer                                                              *)
(***************************************************************************)
RECURSIVE FlushBytes(_)
FlushBytes(w) ==
    IF w.bitlen >= 8
    THEN FlushBytes([out_bits |-> Append(w.out_bits, w.bitbuf % 256),
                     bitbuf |-> w.bitbuf \div 256,
                     bitlen |-> w.bitlen - 8])
    ELSE w

\* variant: the value is not masked to its width
write_bits_NoMask(w, value, bits) ==
    FlushBytes([out_bits |-> w.out_bits,
                bitbuf |-> BitOr(w.bitbuf, value * Pow2(w.bitlen)),
                bitlen |-> w.bitlen + bits])

\* write_bits(buf_bytes, bitbuf, bitlen, value, bits)
write_bits(w, value, bits) ==
    FlushBytes([out_bits |-> w.out_bits,
                bitbuf |-> BitOr(w.bitbuf, (value % Pow2(bits)) * Pow2(w.bitlen)),
                bitlen |-> w.bitlen + bits])

(***************************************************************************)
(* Bit reader                                                              *)
(***************************************************************************)
TruncatedStream == "truncated bitstream"

\* BitReader.read_bits(n) over the bytes dat; r = [pos, bitbuf, bitlen].
\* The refill loop keeps the bytes it has consumed when it raises.
RECURSIVE read_bits(_, _, _)
read_bits(dat, r, n) ==
    IF r.bitlen < n
    THEN IF r.pos >= Len(dat)
         THEN [ok |-> FALSE, val |-> 0, r |-> r]
         ELSE read_bits(dat,
                        [pos |-> r.pos + 1,
                         bitbuf |-> BitOr(r.bitbuf, dat[r.pos + 1] * Pow2(r.bitlen)),
                         bitlen |-> r.bitlen + 8],
                        n)
    ELSE [ok |-> TRUE, val |-> r.bitbuf % Pow2(n),
          r |-> [pos |-> r.pos, bitbuf |-> r.bitbuf \div Pow2(n),
                 bitlen |-> r.bitlen - n]]


(***************************************************************************)
(* Secondary compressor (gzip): an opaque reversible framing               *)
(***************************************************************************)
GZIP_MAGIC == <<31, 139>>

\* gzip.compress(d): magic, payload, size trailer
gzip_compress(d) == GZIP_MAGIC \o d \o <<Len(d) % 256>>

\* gzip.decompress(b): raises on a blob that is not a complete gzip member
gzip_decompress(b) ==
    IF /\ Len(b) >= 3
       /\ Slice(b, 0, 2) = GZIP_MAGIC
       /\ b[Len(b)] = (Len(b) - 3) % 256
    THEN [ok |-> TRUE, data |-> Slice(b, 2, Len(b) - 1)]
    ELSE [ok |-> FALSE, data |-> <<>>]

(***************************************************************************)
(* Run-length encoder: one sub-run emission (compress, inner while body)   *)
(***************************************************************************)
\* variant: the length field holds the run, not the run minus one
ShortForm_RunInField(w, t, run_minus1) ==
    write_bits(write_bits(write_bits(w, t, 4), 0, 1), run_minus1 + 1, 3)

\* short form: 4 bits type, 1 bit F = 0, 3 bits run_minus1
ShortForm(w, t, run_minus1) ==
    write_bits(write_bits(write_bits(w, t, 4), 0, 1), run_minus1, 3)

\* extended form: 4 bits type, 1 bit F = 1, 3 bits small_run - 1, 5 bits M
ExtendedForm(w, t, small_run, M) ==
    write_bits(write_bits(write_bits(write_bits(w, t, 4), 1, 1),
                          small_run - 1, 3), M, 5)

\* variant: a small_run larger than the remainder it is taken from
SmallRun_Sixteen(r) == IF r < 8 THEN r ELSE 16

SmallRun(r) == IF r < 8 THEN r ELSE 8

\* variant: the multiplier without the "- 1"
Multiplier_NoMinusOne(r, small_run) == Min(31, r \div small_run)

Multiplier(r, small_run) == Min(31, (r \div small_run) - 1)

\* variant: the short form is taken for a remainder of 9 as well
EmitSubRun_ShortUpTo9(w, t, r) ==
    IF r <= 9
    THEN [w |-> ShortForm(w, t, r - 1), rem |-> 0,
          branch |-> "short", F |-> 0, used |-> r]
    ELSE LET small_run == SmallRun(r)
             M == Multiplier(r, small_run)
         IN  IF M < 0
             THEN [w |-> ShortForm(w, t, r - 1), rem |-> 0,
                   branch |-> "fallback", F |-> 0, used |-> r]
             ELSE [w |-> ExtendedForm(w, t, small_run, M),
                   rem |-> r - small_run * (M + 1),
                   branch |-> "extended", F |-> 1,
                   used |-> small_run * (M + 1)]

\* one iteration of "while rem > 0": the writer after it, the new rem and
\* the branch taken
EmitSubRun(w, t, r) ==
    IF r <= 8
    THEN [w |-> ShortForm(w, t, r - 1), rem |-> 0,
          branch |-> "short", F |-> 0, used |-> r]
    ELSE LET small_run == SmallRun(r)
             M == Multiplier(r, small_run)
         IN  IF M < 0
             THEN [w |-> ShortForm(w, t, r - 1), rem |-> 0,
                   branch |-> "fallback", F |-> 0, used |-> r]
             ELSE [w |-> ExtendedForm(w, t, small_run, M),
                   rem |-> r - small_run * (M + 1),
                   branch |-> "extended", F |-> 1,
                   used |-> small_run * (M + 1)]

\* end of the maximal run of types starting at 0-based index i
\* (j = k; while j < n and types[j] == t: j += 1)
RunEnd(ts, t, k) ==
    CHOOSE e \in k..Len(ts) :
        /\ \A m \in k..(e - 1) : ts[m + 1] = t
        /\ e = Len(ts) \/ ts[e + 1] # t

MARKER_BITS == 9

\* variant: the partial byte after the marker is not flushed
WriteMarker_NoFlush(w) ==
    write_bits(w, Pow2(MARKER_BITS) - 1, MARKER_BITS)

\* the 9-bit all-ones marker, then the flush of the partial byte
WriteMarker(w) ==
    LET m == write_bits(w, Pow2(MARKER_BITS) - 1, MARKER_BITS)
    IN  IF m.bitlen > 0
        THEN [m EXCEPT !.out_bits = Append(m.out_bits, m.bitbuf % 256)]
        ELSE m

HEADER_LEN == 12

\* the container written by compress
Container(nchunks, olen, bits, blob) ==
    ToBytesLE(nchunks, 4) \o ToBytesLE(olen, 8) \o bits
    \o ToBytesLE(Len(blob), 4) \o blob

\* variant: a pool of a single chunk is treated as empty
ExtrasBlob_SkipsSingle(ex) ==
    IF Len(ex) > 1 THEN gzip_compress(JoinChunks(ex, CHUNK_SIZE)) ELSE <<>>

ExtrasBlob(ex) == IF ex # <<>> THEN gzip_compress(JoinChunks(ex, CHUNK_SIZE)) ELSE <<>>


(***************************************************************************)
(* Run-length decoder: one field group (decompress, run loop body)         *)
(***************************************************************************)
\* variant: the short form's run is the length field itself, without the + 1
DecodeGroup_RunField(dat, r) ==
    LET bad(x) == [ok |-> FALSE, t |-> 0, F |-> 0, run |-> 0, r |-> x]
        rt == read_bits(dat, r, 4)
    IN  IF ~rt.ok THEN bad(rt.r)
        ELSE LET rf == read_bits(dat, rt.r, 1)
             IN  IF ~rf.ok THEN bad(rf.r)
                 ELSE LET ra == read_bits(dat, rf.r, 3)
                      IN  IF ~ra.ok THEN bad(ra.r)
                          ELSE IF rf.val = 0
                               THEN [ok |-> TRUE, t |-> rt.val, F |-> 0,
                                     run |-> ra.val, r |-> ra.r]
                               ELSE LET rm == read_bits(dat, ra.r, 5)
                                    IN  IF ~rm.ok THEN bad(rm.r)
                                        ELSE [ok |-> TRUE, t |-> rt.val, F |-> 1,
                                              run |-> (ra.val + 1) * (rm.val + 1),
                                              r |-> rm.r]

DecodeGroup(dat, r) ==
    LET bad(x) == [ok |-> FALSE, t |-> 0, F |-> 0, run |-> 0, r |-> x]
        rt == read_bits(dat, r, 4)
    IN  IF ~rt.ok THEN bad(rt.r)
        ELSE LET rf == read_bits(dat, rt.r, 1)
             IN  IF ~rf.ok THEN bad(rf.r)
                 ELSE LET ra == read_bits(dat, rf.r, 3)
                      IN  IF ~ra.ok THEN bad(ra.r)
                          ELSE IF rf.val = 0
                               THEN [ok |-> TRUE, t |-> rt.val, F |-> 0,
                                     run |-> ra.val + 1, r |-> ra.r]
                               ELSE LET rm == read_bits(dat, ra.r, 5)
                                    IN  IF ~rm.ok THEN bad(rm.r)
                                        ELSE [ok |-> TRUE, t |-> rt.val, F |-> 1,
                                              run |-> (ra.val + 1) * (rm.val + 1),
                                              r |-> rm.r]

ZeroChunk == Repeat(<<0>>, CHUNK_SIZE)

\* variant: the check only fires once the cursor is past the end of the data
TrailerMissing_PastEnd(pos, dat) == pos > Len(dat)

\* if pos + 4 > len(data): raise SystemExit('missing extras length')
TrailerMissing(pos, dat) == pos + 4 > Len(dat)

\* byte offsets len(restored), len(restored) + CHUNK_SIZE, ... of a Type-15 run
RunPositions(start, run) == [k \in 1..run |-> start + (k - 1) * CHUNK_SIZE]

\* second pass, positions lo..hi of extras_positions in order: the k-th
\* position takes next(ex_iter), the k-th piece, or a zero chunk once the
\* iterator is exhausted
RECURSIVE PatchRange(_, _, _, _, _)
PatchRange(buf, ps, pieces, lo, hi) ==
    IF lo > hi THEN buf
    ELSE IF lo = hi
    THEN LET chunk == IF lo <= Len(pieces) THEN pieces[lo] ELSE ZeroChunk
         IN  SliceAssign(buf, ps[lo], ps[lo] + CHUNK_SIZE, chunk)
    ELSE LET mid == (lo + hi) \div 2
             first == PatchRange(buf, ps, pieces, lo, mid)
         IN  IF Len(first) >= 0
             THEN PatchRange(first, ps, pieces, mid + 1, hi)
             ELSE first

PatchPass(buf, ps, pieces) == PatchRange(buf, ps, pieces, 1, Len(ps))

(***************************************************************************)
(* State                                                                   *)
(***************************************************************************)
VARIABLES
    world,            \* bytes of the world file given to compress
    infile,           \* bytes of the file to compress
    cfile,            \* the container file: [exists, bytes]
    ofile,            \* the file decompress writes: [exists, bytes]
    io_log,           \* file operations performed so far, in order
    tamper,           \* what happened to the container between the two calls
    pc,               \* position of the running call
    err,              \* message of the SystemExit / exception raised, or "none"
    home, chunks, orig_len, types, extras,      \* compress locals
    i, j, rem, bw, groups,                      \* encoder loop and bit writer
    d_world, d_home, data, chunks_count, d_orig_len,   \* decompress locals
    br, restored, extras_positions, expanded, dtypes, ones,
    d_extras, out_bytes,
    btn_state,        \* GUI: state of the Compress and Decompress buttons
    workers,          \* GUI: the background threads started by run_op
    status_lbl,       \* GUI: text of the status label
    progress,         \* GUI: "running" or "stopped"
    dialogs,          \* GUI: message boxes shown so far, in order
    b_fields,         \* bit FIFO: the (value, width) pairs to write
    b_pc,             \* bit FIFO: "write", "flushed", "read" or "end"
    b_n,              \* bit FIFO: number of pairs written
    b_w,              \* bit FIFO: the writer
    b_data,           \* bit FIFO: the bytes handed to the reader
    b_r,              \* bit FIFO: the reader
    b_vals,           \* bit FIFO: the values read so far
    b_err             \* bit FIFO: the error read_bits raised, or "none"

vars == <<world, infile, cfile, ofile, io_log, tamper, pc, err,
          home, chunks, orig_len, types, extras, i, j, rem, bw, groups,
          d_world, d_home, data, chunks_count, d_orig_len,
          br, restored, extras_positions, expanded, dtypes, ones,
          d_extras, out_bytes,
          btn_state, workers, status_lbl, progress, dialogs,
          b_fields, b_pc, b_n, b_w, b_data, b_r, b_vals, b_err>>

gvars == <<btn_state, workers, status_lbl, progress, dialogs>>

bvars == <<b_fields, b_pc, b_n, b_w, b_data, b_r, b_vals, b_err>>

aux == <<gvars, bvars>>

cvars == <<home, chunks, orig_len, types, extras, i, j, rem, bw, groups>>

dvars == <<d_world, d_home, data, chunks_count, d_orig_len,
           br, restored, extras_positions, expanded, dtypes, ones,
           d_extras, out_bytes>>

fvars == <<world, infile, cfile, ofile, tamper>>

(***************************************************************************)
(* Files the model starts from                                             *)
(***************************************************************************)
ValidWorld == [k \in 1..32 |-> k]

ShortWorld == [k \in 1..31 |-> k]

HomeChunk(n) == gen_home_from_key(load_world(ValidWorld).key)[n + 1]

LiteralChunk == Repeat(<<7>>, CHUNK_SIZE)

Palette == {HomeChunk(3), HomeChunk(15), LiteralChunk, ZeroChunk}

RECURSIVE ChunkFiles(_)
ChunkFiles(n) ==
    IF n = 0 THEN {<<>>}
    ELSE LET prev == ChunkFiles(n - 1)
         IN  prev \cup {f \o c : f \in prev, c \in Palette}

Tails == {<<>>, <<5>>, Repeat(<<5>>, CHUNK_SIZE - 1)}

\* small files: up to MaxChunks palette chunks and an optional partial chunk
InputsSmall == {f \o tl : f \in ChunkFiles(MaxChunks), tl \in Tails}

RunLens == {1, 8, 9, MaxRunLen - 1, MaxRunLen}

RunPalette == {HomeChunk(3), LiteralChunk}

RunFiles == {Repeat(c, n) : c \in RunPalette, n \in RunLens}

\* three runs of 9: three extended and three short groups, 63 field bits, so
\* that the marker ends on a byte boundary
ThreeRunFiles ==
    {Repeat(p[1], 9) \o Repeat(p[2], 9) \o Repeat(p[1], 9) :
        p \in {q \in RunPalette \X RunPalette : q[1] # q[2]}}

\* the empty file and files made of one, two or three runs of equal chunks
InputsRuns ==
    {<<>>} \cup RunFiles \cup {f \o g : f \in RunFiles, g \in RunFiles}
    \cup ThreeRunFiles

\* files made of n copies of one home entry
InputsSingle ==
    {Repeat(HomeChunk(n), k) : n \in 0..15, k \in 1..MaxCopies}

NoFile == [exists |-> FALSE, bytes |-> <<>>]

StaleFile == [exists |-> TRUE, bytes |-> <<9, 9>>]

NewWriter == [out_bits |-> <<>>, bitbuf |-> 0, bitlen |-> 0]

NewReader(p) == [pos |-> p, bitbuf |-> 0, bitlen |-> 0]

CodecInit(inputs, worlds, olds) ==
    /\ world \in worlds
    /\ infile \in inputs
    /\ \E old \in olds : cfile = old /\ ofile = old
    /\ io_log = <<>>
    /\ tamper = [kind |-> "none", at |-> 0]
    /\ pc = "c_load_world"
    /\ err = "none"
    /\ home = <<>> /\ chunks = <<>> /\ orig_len = 0
    /\ types = <<>> /\ extras = <<>>
    /\ i = 0 /\ j = 0 /\ rem = 0
    /\ bw = NewWriter /\ groups = <<>>
    /\ d_world = <<>> /\ d_home = <<>> /\ data = <<>>
    /\ chunks_count = 0 /\ d_orig_len = 0
    /\ br = NewReader(0)
    /\ restored = <<>> /\ extras_positions = <<>> /\ expanded = 0
    /\ dtypes = <<>> /\ ones = 0
    /\ d_extras = <<>> /\ out_bytes = <<>>

Buttons == {"compress", "decompress"}

\* main(): both buttons enabled, no worker, empty status label
GuiInit ==
    /\ btn_state = [b \in Buttons |-> "normal"]
    /\ workers = <<>>
    /\ status_lbl = [op |-> "", text |-> ""]
    /\ progress = "stopped"
    /\ dialogs = <<>>

\* a fresh writer, the pairs to write drawn from seqs
BitsInit(seqs) ==
    /\ b_fields \in seqs
    /\ b_pc = "write"
    /\ b_n = 0
    /\ b_w = NewWriter
    /\ b_data = <<>>
    /\ b_r = NewReader(0)
    /\ b_vals = <<>>
    /\ b_err = "none"

InitWith(inputs, worlds, olds) ==
    /\ CodecInit(inputs, worlds, olds)
    /\ GuiInit
    /\ BitsInit({<<>>})

Init == InitWith(InputsSmall, {ValidWorld, ShortWorld}, {NoFile, StaleFile})

InitRuns == InitWith(InputsRuns, {ValidWorld}, {NoFile})

InitSingle == InitWith(InputsSingle, {ValidWorld}, {NoFile})

(***************************************************************************)
(* compress(infile, out, world)                                            *)
(***************************************************************************)
\* variant: the input file is read before the world file is checked
CLoadWorld_ReadsInputFirst ==
    /\ pc = "c_load_world"
    /\ io_log' = io_log \o <<"compress read infile", "compress read world">>
    /\ LET w == load_world(world)
       IN  IF ~w.ok
           THEN /\ pc' = "c_failed"
                /\ err' = ConfigError
                /\ home' = home
           ELSE /\ pc' = "c_chunk_file"
                /\ err' = err
                /\ home' = gen_home_from_key(w.key)
    /\ UNCHANGED <<aux, fvars, chunks, orig_len, types, extras, i, j, rem, bw,
                   groups, dvars>>

\* mapping, key = load_world(world); home = gen_home_from_key(key)
CLoadWorld ==
    /\ pc = "c_load_world"
    /\ io_log' = Append(io_log, "compress read world")
    /\ LET w == load_world(world)
       IN  IF ~w.ok
           THEN /\ pc' = "c_failed"
                /\ err' = ConfigError
                /\ home' = home
           ELSE /\ pc' = "c_chunk_file"
                /\ err' = err
                /\ home' = gen_home_from_key(w.key)
    /\ UNCHANGED <<aux, fvars, chunks, orig_len, types, extras, i, j, rem, bw,
                   groups, dvars>>

\* chunks, orig_len = chunk_file(infile)
CChunkFile ==
    /\ pc = "c_chunk_file"
    /\ io_log' = Append(io_log, "compress read infile")
    /\ chunks' = chunk_file(infile).chunks
    /\ orig_len' = chunk_file(infile).orig_len
    /\ pc' = "c_classify"
    /\ UNCHANGED <<aux, fvars, err, home, types, extras, i, j, rem, bw, groups,
                   dvars>>

\* for c in chunks: types.append(...) / extras.append(c)
CClassify ==
    /\ pc = "c_classify"
    /\ types' = ClassifyTypes(home, chunks)
    /\ extras' = ClassifyExtras(home, chunks)
    /\ i' = 0 /\ rem' = 0 /\ j' = 0
    /\ bw' = NewWriter
    /\ pc' = "c_runs"
    /\ UNCHANGED <<aux, fvars, io_log, err, home, chunks, orig_len, groups, dvars>>

\* outer loop head: t = types[i]; find j; rem = run = j - i
CScanRun ==
    /\ pc = "c_runs"
    /\ ~(rem > 0)
    /\ i < Len(types)
    /\ j' = RunEnd(types, types[i + 1], i + 1)
    /\ rem' = j' - i
    /\ UNCHANGED <<aux, fvars, io_log, pc, err, home, chunks, orig_len, types,
                   extras, i, bw, groups, dvars>>

\* one iteration of "while rem > 0", and "i = j" when the run is used up
CEmit ==
    /\ pc = "c_runs"
    /\ rem > 0
    /\ \E e \in {EmitSubRun(bw, types[i + 1], rem)} :
           /\ bw' = e.w
           /\ rem' = e.rem
           /\ groups' = Append(groups, [t |-> types[i + 1], F |-> e.F,
                                        run |-> e.used, branch |-> e.branch])
           /\ i' = IF e.rem > 0 THEN i ELSE j
    /\ UNCHANGED <<aux, fvars, io_log, pc, err, home, chunks, orig_len, types,
                   extras, j, dvars>>

\* after the loop: the 9-bit marker and the flush of the trailing byte
CMarker ==
    /\ pc = "c_runs"
    /\ ~(rem > 0)
    /\ i >= Len(types)
    /\ bw' = WriteMarker(bw)
    /\ pc' = "c_write"
    /\ UNCHANGED <<aux, fvars, io_log, err, home, chunks, orig_len, types, extras,
                   i, j, rem, groups, dvars>>

\* extras_blob = gzip.compress(...); with open(out, 'wb') as f: ...
CWrite ==
    /\ pc = "c_write"
    /\ cfile' = [exists |-> TRUE,
                 bytes |-> Container(Len(chunks), orig_len, bw.out_bits,
                                     ExtrasBlob(extras))]
    /\ io_log' = Append(io_log, "compress write out")
    /\ pc' = "c_done"
    /\ UNCHANGED <<aux, world, infile, ofile, tamper, err, cvars, dvars>>


(***************************************************************************)
(* The container between the two calls: decompress reads whatever bytes    *)
(* the file holds by then (cut short, written without the marker, or with  *)
(* a shorter extras payload)                                               *)
(***************************************************************************)
RECURSIVE FieldBits(_)
FieldBits(gs) ==
    IF gs = <<>> THEN 0
    ELSE (IF Head(gs).F = 0 THEN 8 ELSE 13) + FieldBits(Tail(gs))

\* the run-field bytes alone, zero padded to a byte boundary
FieldBytes(bits, nbits) ==
    LET nb == (nbits + 7) \div 8
        full == Slice(bits, 0, nbits \div 8)
    IN  IF nbits % 8 = 0 THEN full
        ELSE full \o <<bits[nb] % Pow2(nbits % 8)>>

CutOffsets ==
    {0, HEADER_LEN - 1}
    \cup (HEADER_LEN ..
          Min(Len(cfile.bytes) - 1, HEADER_LEN + Len(bw.out_bits) + 4))

PayloadLens == {0, 5, 18, 23}

TruncateContainer ==
    /\ pc = "c_done"
    /\ tamper.kind = "none"
    /\ \E cut \in CutOffsets :
          /\ cfile' = [cfile EXCEPT !.bytes = Slice(cfile.bytes, 0, cut)]
          /\ tamper' = [kind |-> "cut", at |-> cut]
    /\ UNCHANGED <<aux, world, infile, ofile, io_log, pc, err, cvars, dvars>>

StripMarker ==
    /\ pc = "c_done"
    /\ tamper.kind = "none"
    /\ cfile' = [cfile EXCEPT !.bytes =
                    Container(Len(chunks), orig_len,
                              FieldBytes(bw.out_bits, FieldBits(groups)),
                              ExtrasBlob(extras))]
    /\ tamper' = [kind |-> "nomarker", at |-> 0]
    /\ UNCHANGED <<aux, world, infile, ofile, io_log, pc, err, cvars, dvars>>

ShortenExtras ==
    /\ pc = "c_done"
    /\ tamper.kind = "none"
    /\ \E n \in PayloadLens :
          /\ n < Len(extras) * CHUNK_SIZE
          /\ cfile' = [cfile EXCEPT !.bytes =
                          Container(Len(chunks), orig_len, bw.out_bits,
                                    gzip_compress(Slice(JoinChunks(extras, CHUNK_SIZE), 0, n)))]
          /\ tamper' = [kind |-> "extras", at |-> n]
    /\ UNCHANGED <<aux, world, infile, ofile, io_log, pc, err, cvars, dvars>>

(***************************************************************************)
(* decompress(infile, out, world)                                          *)
(***************************************************************************)
TooShort == "input too short"

MissingTrailer == "missing extras length"

GzipError == "gzip error"

\* mapping, key = load_world(world); home = gen_home_from_key(key)
DLoadWorld ==
    /\ pc = "c_done"
    /\ \E w \in {world, ShortWorld} :
          /\ d_world' = w
          /\ IF ~load_world(w).ok
             THEN /\ pc' = "d_failed"
                  /\ err' = ConfigError
                  /\ d_home' = d_home
             ELSE /\ pc' = "d_read"
                  /\ err' = err
                  /\ d_home' = gen_home_from_key(load_world(w).key)
    /\ io_log' = Append(io_log, "decompress read world")
    /\ UNCHANGED <<aux, fvars, cvars, data, chunks_count, d_orig_len, br, restored,
                   extras_positions, expanded, dtypes, ones, d_extras,
                   out_bytes>>

\* data = open(infile).read(); header check and parse; br = BitReader(data, 12)
DReadHeader ==
    /\ pc = "d_read"
    /\ io_log' = Append(io_log, "decompress read infile")
    /\ data' = cfile.bytes
    /\ IF Len(cfile.bytes) < HEADER_LEN
       THEN /\ pc' = "d_failed"
            /\ err' = TooShort
            /\ UNCHANGED <<chunks_count, d_orig_len, br>>
       ELSE /\ chunks_count' = FromBytesLE(Slice(cfile.bytes, 0, 4))
            /\ d_orig_len' = FromBytesLE(Slice(cfile.bytes, 4, 12))
            /\ br' = NewReader(HEADER_LEN)
            /\ pc' = IF chunks_count' > 0 THEN "d_runs" ELSE "d_marker"
            /\ err' = err
    /\ restored' = <<>> /\ extras_positions' = <<>> /\ expanded' = 0
    /\ dtypes' = <<>> /\ ones' = 0
    /\ UNCHANGED <<aux, fvars, cvars, d_world, d_home, d_extras, out_bytes>>

\* variant: the run loop is left after the first group, so that the end of
\* the fields is found by the marker scan rather than by the chunk count
DGroup_MarkerDriven ==
    /\ pc = "d_runs"
    /\ expanded < chunks_count
    /\ \E g \in {DecodeGroup(data, br)} :
           /\ br' = g.r
           /\ IF ~g.ok
              THEN /\ pc' = "d_failed"
                   /\ err' = TruncatedStream
                   /\ UNCHANGED <<restored, extras_positions, expanded, dtypes>>
              ELSE /\ IF g.t = 15
                      THEN /\ extras_positions' = extras_positions
                                \o RunPositions(Len(restored), g.run)
                           /\ restored' = restored
                                \o Repeat(ZeroChunk, g.run)
                      ELSE /\ extras_positions' = extras_positions
                           /\ restored' = restored
                                \o Repeat(d_home[g.t + 1], g.run)
                   /\ expanded' = expanded + g.run
                   /\ dtypes' = dtypes \o Repeat(<<g.t>>, g.run)
                   /\ pc' = "d_marker"
                   /\ err' = err
    /\ UNCHANGED <<aux, fvars, io_log, cvars, d_world, d_home, data, chunks_count,
                   d_orig_len, ones, d_extras, out_bytes>>

\* one iteration of "while expanded < chunks_count"
DGroup ==
    /\ pc = "d_runs"
    /\ expanded < chunks_count
    /\ \E g \in {DecodeGroup(data, br)} :
           /\ br' = g.r
           /\ IF ~g.ok
              THEN /\ pc' = "d_failed"
                   /\ err' = TruncatedStream
                   /\ UNCHANGED <<restored, extras_positions, expanded, dtypes>>
              ELSE /\ IF g.t = 15
                      THEN /\ extras_positions' = extras_positions
                                \o RunPositions(Len(restored), g.run)
                           /\ restored' = restored
                                \o Repeat(ZeroChunk, g.run)
                      ELSE /\ extras_positions' = extras_positions
                           /\ restored' = restored
                                \o Repeat(d_home[g.t + 1], g.run)
                   /\ expanded' = expanded + g.run
                   /\ dtypes' = dtypes \o Repeat(<<g.t>>, g.run)
                   /\ pc' = IF expanded' < chunks_count THEN "d_runs"
                            ELSE "d_marker"
                   /\ err' = err
    /\ UNCHANGED <<aux, fvars, io_log, cvars, d_world, d_home, data, chunks_count,
                   d_orig_len, ones, d_extras, out_bytes>>

\* one iteration of "while ones < 9" inside try / except SystemExit: pass
DMarkerBit ==
    /\ pc = "d_marker"
    /\ LET b == read_bits(data, br, 1)
       IN  /\ br' = b.r
           /\ IF ~b.ok
              THEN /\ ones' = ones
                   /\ pc' = "d_trailer"
              ELSE /\ ones' = IF b.val = 1 THEN ones + 1 ELSE 0
                   /\ pc' = IF ones' < MARKER_BITS THEN "d_marker"
                            ELSE "d_trailer"
    /\ UNCHANGED <<aux, fvars, io_log, err, cvars, d_world, d_home, data,
                   chunks_count, d_orig_len, restored, extras_positions,
                   expanded, dtypes, d_extras, out_bytes>>

\* align to the next byte, read extras_len and the blob, gunzip it
DTrailer ==
    /\ pc = "d_trailer"
    /\ br' = [br EXCEPT !.bitbuf = 0, !.bitlen = 0]
    /\ IF TrailerMissing(br.pos, data)
       THEN /\ pc' = "d_failed"
            /\ err' = MissingTrailer
            /\ d_extras' = d_extras
       ELSE LET extras_len == FromBytesLE(Slice(data, br.pos, br.pos + 4))
                extras_blob == IF extras_len # 0
                               THEN Slice(data, br.pos + 4,
                                          br.pos + 4 + extras_len)
                               ELSE <<>>
                z == gzip_decompress(extras_blob)
            IN  IF extras_blob # <<>> /\ ~z.ok
                THEN /\ pc' = "d_failed"
                     /\ err' = GzipError
                     /\ d_extras' = d_extras
                ELSE /\ pc' = "d_patch"
                     /\ err' = err
                     /\ d_extras' = IF extras_blob # <<>> THEN z.data ELSE <<>>
    /\ UNCHANGED <<aux, fvars, io_log, cvars, d_world, d_home, data, chunks_count,
                   d_orig_len, restored, extras_positions, expanded, dtypes,
                   ones, out_bytes>>

\* if extras_positions: patch every recorded position, in order
DPatch ==
    /\ pc = "d_patch"
    /\ out_bytes' = IF extras_positions # <<>>
                    THEN PatchPass(restored, extras_positions,
                                   SplitBy(d_extras, CHUNK_SIZE))
                    ELSE restored
    /\ pc' = "d_write"
    /\ UNCHANGED <<aux, fvars, io_log, err, cvars, d_world, d_home, data,
                   chunks_count, d_orig_len, br, restored, extras_positions,
                   expanded, dtypes, ones, d_extras>>

\* restored = restored[:orig_len]; with open(out, 'wb') as f: f.write(restored)
DWrite ==
    /\ pc = "d_write"
    /\ ofile' = [exists |-> TRUE, bytes |-> Slice(out_bytes, 0, d_orig_len)]
    /\ io_log' = Append(io_log, "decompress write out")
    /\ pc' = "d_done"
    /\ UNCHANGED <<aux, world, infile, cfile, tamper, err, cvars, dvars>>

(***************************************************************************)
(* Specifications                                                          *)
(***************************************************************************)
Compress == CLoadWorld \/ CChunkFile \/ CClassify \/ CScanRun \/ CEmit
            \/ CMarker \/ CWrite

Decompress == DLoadWorld \/ DReadHeader \/ DGroup \/ DMarkerBit \/ DTrailer
              \/ DPatch \/ DWrite

Next == Compress \/ Decompress \/ TruncateContainer \/ StripMarker
        \/ ShortenExtras

NextCodec == Compress \/ Decompress

\* small files, any world, a container that may be damaged before decoding
Spec == Init /\ [][Next]_vars

\* files for the runs to completion: up to one palette chunk with an optional
\* partial chunk, and one run of 9 (an extended and a short group)
InputsLive ==
    {f \o tl : f \in ChunkFiles(1), tl \in Tails}
    \cup {Repeat(HomeChunk(3), 9)}

InitLive == InitWith(InputsLive, {ValidWorld, ShortWorld}, {NoFile})

\* as Spec, and a call that can take a step takes one: compress and
\* decompress are sequential code that runs without waiting for anything
SpecLive == InitLive /\ [][Next]_vars /\ WF_vars(Next)

\* long runs of equal chunks, intact container
SpecRuns == InitRuns /\ [][NextCodec]_vars

\* n copies of one home entry, intact container
SpecSingle == InitSingle /\ [][NextCodec]_vars


(***************************************************************************)
(* The bit FIFO on its own: write_bits over a list of (value, width)       *)
(* pairs, the flush of the partial byte, then a BitReader over the bytes   *)
(* (all of them, or all but the last) reading the same widths in order     *)
(***************************************************************************)
codecvars == <<fvars, io_log, pc, err, cvars, dvars>>

FIELD_WIDTHS == {1, 3, 4, 5, 9}

FieldValues == {10, 511}

FieldPairs == {[value |-> v, width |-> n] : v \in FieldValues, n \in FIELD_WIDTHS}

RECURSIVE FieldSeqs(_)
FieldSeqs(n) ==
    IF n = 0 THEN {<<>>}
    ELSE LET prev == FieldSeqs(n - 1)
         IN  prev \cup {Append(q, f) : q \in prev, f \in FieldPairs}

\* if bitlen > 0: out_bits.append(bitbuf & 0xFF)
FlushPartial(w) ==
    IF w.bitlen > 0 THEN Append(w.out_bits, w.bitbuf % 256) ELSE w.out_bits

InitBits ==
    /\ CodecInit({<<>>}, {ValidWorld}, {NoFile})
    /\ GuiInit
    /\ BitsInit(FieldSeqs(MaxFields))

BWrite ==
    /\ b_pc = "write"
    /\ b_n < Len(b_fields)
    /\ b_w' = write_bits(b_w, b_fields[b_n + 1].value, b_fields[b_n + 1].width)
    /\ b_n' = b_n + 1
    /\ UNCHANGED <<codecvars, gvars, b_fields, b_pc, b_data, b_r, b_vals, b_err>>

BFlush ==
    /\ b_pc = "write"
    /\ b_n = Len(b_fields)
    /\ b_data' = FlushPartial(b_w)
    /\ b_pc' = "flushed"
    /\ UNCHANGED <<codecvars, gvars, b_fields, b_n, b_w, b_r, b_vals, b_err>>

\* BitReader(data, pos) over the bytes written, or over all but the last one
BOpen ==
    /\ b_pc = "flushed"
    /\ \E cut \in {0, 1} :
          /\ cut <= Len(b_data)
          /\ b_data' = Slice(b_data, 0, Len(b_data) - cut)
    /\ b_r' = NewReader(0)
    /\ b_pc' = IF b_fields = <<>> THEN "end" ELSE "read"
    /\ UNCHANGED <<codecvars, gvars, b_fields, b_n, b_w, b_vals, b_err>>

BRead ==
    /\ b_pc = "read"
    /\ LET res == read_bits(b_data, b_r, b_fields[Len(b_vals) + 1].width)
       IN  /\ b_r' = res.r
           /\ IF ~res.ok
              THEN /\ b_err' = TruncatedStream
                   /\ b_vals' = b_vals
                   /\ b_pc' = "end"
              ELSE /\ b_err' = b_err
                   /\ b_vals' = Append(b_vals, res.val)
                   /\ b_pc' = IF Len(b_vals') < Len(b_fields) THEN "read"
                              ELSE "end"
    /\ UNCHANGED <<codecvars, gvars, b_fields, b_n, b_w, b_data>>

NextBits == BWrite \/ BFlush \/ BOpen \/ BRead

\* sequences of up to MaxFields (value, width) pairs through the bit FIFO
SpecBits == InitBits /\ [][NextBits]_vars

(***************************************************************************)
(* Properties                                                              *)
(***************************************************************************)
Intact == tamper.kind = "none"

Classified == pc \notin {"c_load_world", "c_chunk_file", "c_classify", "c_failed"}

Written == pc \notin {"c_load_world", "c_chunk_file", "c_classify", "c_runs",
                      "c_write", "c_failed"}

Finished == pc \in {"d_done", "d_failed"}

InHome(hm, c) == \E n \in 1..16 : hm[n] = c

\* the positions (1-based chunk indices) whose Type is 15, in order
Type15Positions ==
    SelectSeq([p \in 1..Len(types) |-> p], LAMBDA p : types[p] = 15)

\* C1: decompress of the container written by compress, with the same world
\* file, yields exactly the original bytes, for every input
C1_RoundTrip ==
    (pc = "d_done" /\ Intact /\ d_world = world) => ofile.bytes = infile

\* C2: after classification the extras pool holds exactly one literal chunk
\* per Type-15 position, in the order of those positions
C2_ExtrasMatchType15 ==
    Classified =>
        /\ Len(extras) = Len(Type15Positions)
        /\ \A k \in 1..Len(extras) :
              k <= Len(Type15Positions) => extras[k] = chunks[Type15Positions[k]]

\* C3: a Type in 0..14 only for a chunk identical to HomeTable[Type], and
\* Type 15 if and only if the chunk matches no dictionary entry
C3_TypeClassification ==
    Classified =>
        \A p \in 1..Len(chunks) :
            /\ types[p] \in 0..14 => chunks[p] = home[types[p] + 1]
            /\ types[p] = 15 <=> ~InHome(home, chunks[p])

\* the bytes of one extended group of 256 and one short group of 1 of Type t,
\* followed by the marker (30 bits)
Run257Bytes(t) ==
    ToBytesLE(t + 16 + 7 * 32 + 31 * 256 + t * 8192 + 511 * 2097152, 4)

\* C4: the decoder's Type at every position is the encoder's Type at that
\* position, for every Type sequence; a run of 257 is written as one extended
\* group of 256 followed by one short group of 1
C4_RunsDecodeExactly ==
    /\ pc \in {"d_runs", "d_marker", "d_trailer", "d_patch", "d_write", "d_done"}
          => /\ Len(dtypes) <= Len(types)
             /\ dtypes = SubSeq(types, 1, Len(dtypes))
    /\ pc \in {"d_marker", "d_trailer", "d_patch", "d_write", "d_done"}
          => dtypes = types
    /\ (Written /\ Len(types) = 257 /\ \A p \in 1..257 : types[p] = types[1])
          => /\ groups = << [t |-> types[1], F |-> 1, run |-> 256,
                             branch |-> "extended"],
                            [t |-> types[1], F |-> 0, run |-> 1,
                             branch |-> "short"] >>
             /\ bw.out_bits = Run257Bytes(types[1])

C4_Witness ==
    /\ pc = "d_done"
    /\ Len(types) = 257
    /\ \A p \in 1..257 : types[p] = types[1]
    /\ dtypes = types
    /\ Len(groups) = 2

\* the container was cut at a byte offset inside its bitstream field
CutInBitstream ==
    /\ tamper.kind = "cut"
    /\ tamper.at >= HEADER_LEN
    /\ tamper.at < HEADER_LEN + Len(bw.out_bits)

\* C5 as stated: a container cut inside the bitstream field makes decompress
\* fail with the TruncatedStream error and with no other outcome
C5_CutYieldsTruncatedStream ==
    (CutInBitstream /\ load_world(d_world).ok /\ Finished)
        => (pc = "d_failed" /\ err = TruncatedStream)

\* C5 amended: a container cut inside the bitstream field makes decompress
\* fail without output: with TruncatedStream while the run fields are
\* incomplete, with MissingTrailer once chunk_count chunks were expanded and
\* only the marker was cut
C5_CutFailsWithoutOutput ==
    (CutInBitstream /\ load_world(d_world).ok) =>
        /\ pc \notin {"d_patch", "d_write", "d_done"}
        /\ ofile \in {NoFile, StaleFile}
        /\ pc = "d_failed" =>
              \/ err = TruncatedStream /\ expanded < chunks_count
              \/ /\ err = MissingTrailer
                 /\ expanded >= chunks_count
                 /\ ones < MARKER_BITS

C5_Witness ==
    /\ CutInBitstream
    /\ pc = "d_failed"
    /\ err = MissingTrailer
    /\ chunks_count > 0
    /\ expanded = chunks_count

\* C6: when the input is exhausted before nine one-bits are read (here: a
\* container whose bitstream has no marker but whose extras-length field and
\* blob are present), decompress does not fail and completes
C6_MarkerAbsentNonFatal ==
    (/\ tamper.kind = "nomarker"
     /\ load_world(d_world).ok
     /\ Finished
     /\ expanded >= chunks_count
     /\ ones < MARKER_BITS)
        => pc = "d_done"

FatalErrors == {ConfigError, TooShort, TruncatedStream, MissingTrailer}

InLog(e) == \E k \in 1..Len(io_log) : io_log[k] = e

\* C7: when compress or decompress aborts with a fatal error its output file
\* is neither created nor modified, and the world file is checked before the
\* input is read
C7_NoPartialOutput ==
    /\ pc = "c_failed" =>
          /\ err = ConfigError
          /\ cfile \in {NoFile, StaleFile}
          /\ ~InLog("compress write out")
          /\ ~InLog("compress read infile")
    /\ (pc = "d_failed" /\ err \in FatalErrors) =>
          /\ ofile \in {NoFile, StaleFile}
          /\ ~InLog("decompress write out")
          /\ err = ConfigError => ~InLog("decompress read infile")
    /\ InLog("compress read infile") =>
          /\ io_log[1] = "compress read world"
          /\ load_world(world).ok
    /\ InLog("decompress read infile") => load_world(d_world).ok

C7_Witness ==
    /\ pc = "d_failed"
    /\ err = MissingTrailer
    /\ ofile = StaleFile
    /\ InLog("decompress read infile")

\* the CHUNK_SIZE pieces the decompressed extras yield
NumPieces == Len(d_extras) \div CHUNK_SIZE

\* C8: with fewer CHUNK_SIZE pieces than Type-15 positions decompress does
\* not fail; the first positions hold the pieces in order, the remaining
\* Type-15 positions hold zero chunks and every dictionary-typed position
\* holds its HomeTable entry
C8_ExtrasShortfall ==
    (pc \in {"d_write", "d_done"} /\ NumPieces < Len(extras_positions)) =>
        /\ \A k \in 1..Len(extras_positions) :
              Slice(out_bytes, extras_positions[k],
                    extras_positions[k] + CHUNK_SIZE)
                = IF k <= NumPieces
                  THEN Slice(d_extras, (k - 1) * CHUNK_SIZE, k * CHUNK_SIZE)
                  ELSE ZeroChunk
        /\ \A c \in 1..Len(dtypes) :
              dtypes[c] # 15 =>
                  Slice(out_bytes, (c - 1) * CHUNK_SIZE, c * CHUNK_SIZE)
                    = d_home[dtypes[c] + 1]

AllMatch == \A p \in 1..Len(chunks) : InHome(home, chunks[p])

NoneMatch == \A p \in 1..Len(chunks) : ~InHome(home, chunks[p])

BitstreamEnd == HEADER_LEN + Len(bw.out_bits)

\* C9: a file whose chunks all match dictionary entries gives extras_len = 0
\* and no blob; a non-empty file whose chunks all match no entry gives a
\* non-empty blob and round-trips exactly
C9_ExtrasIntegrity ==
    /\ (Written /\ Intact /\ AllMatch) =>
          /\ Len(cfile.bytes) = BitstreamEnd + 4
          /\ Slice(cfile.bytes, BitstreamEnd, BitstreamEnd + 4) = <<0, 0, 0, 0>>
    /\ (Written /\ Intact /\ NoneMatch /\ infile # <<>>) =>
          /\ Len(cfile.bytes) > BitstreamEnd + 4
          /\ FromBytesLE(Slice(cfile.bytes, BitstreamEnd, BitstreamEnd + 4))
               = Len(cfile.bytes) - (BitstreamEnd + 4)
          /\ pc \notin {"d_failed"} \/ err = ConfigError
          /\ (pc = "d_done" /\ d_world = world) => ofile.bytes = infile

C9_Witness ==
    /\ pc = "d_done"
    /\ Intact
    /\ NoneMatch
    /\ Len(chunks) = 2
    /\ ofile.bytes = infile

\* the container of n copies of HomeTable[k]: chunk_count n, orig_len 18 n,
\* one short group (Type k, flag 0, length field n - 1), the marker, and
\* extras_len 0
SingleRunContainer(k, n) ==
    ToBytesLE(n, 4) \o ToBytesLE(CHUNK_SIZE * n, 8)
    \o <<k + 32 * (n - 1), 255, 1>> \o <<0, 0, 0, 0>>

\* C10: n copies of HomeTable[k] (k in 0..14, 1 <= n <= 8) compress to
\* exactly that container, and decompressing it restores the input
C10_SingleRun ==
    LET n == Len(infile) \div CHUNK_SIZE
    IN  \A k \in 0..14 :
            (Written /\ n \in 1..8 /\ infile = Repeat(HomeChunk(k), n)) =>
                /\ cfile.bytes = SingleRunContainer(k, n)
                /\ pc # "d_failed" \/ err = ConfigError
                /\ (pc = "d_done" /\ d_world = world) => ofile.bytes = infile

C10_Witness ==
    /\ pc = "d_done"
    /\ infile = Repeat(HomeChunk(3), 2)
    /\ cfile.bytes = SingleRunContainer(3, 2)
    /\ ofile.bytes = infile

\* the bits the reader has not yet returned: its buffer plus the unread bytes
UnreadBits == b_r.bitlen + 8 * (Len(b_data) - b_r.pos)

\* C11: reading the written widths in order returns the low 'width' bits of
\* each written value, in write order, and read_bits(n) fails exactly when
\* fewer than n unread bits remain in buffer plus byte source
C11_BitFifoSymmetry ==
    /\ \A k \in 1..Len(b_vals) :
          b_vals[k] = b_fields[k].value % Pow2(b_fields[k].width)
    /\ (b_pc = "end" /\ Len(b_data) = Len(FlushPartial(b_w))) =>
          /\ b_err = "none"
          /\ Len(b_vals) = Len(b_fields)
    /\ b_pc \in {"read", "end"} =>
          \A n \in FIELD_WIDTHS :
              read_bits(b_data, b_r, n).ok <=> UnreadBits >= n
    /\ b_err = TruncatedStream =>
          /\ Len(b_vals) < Len(b_fields)
          /\ UnreadBits < b_fields[Len(b_vals) + 1].width

C11_Witness ==
    /\ b_pc = "end"
    /\ b_err = "none"
    /\ Len(b_fields) = 3
    /\ Len(b_vals) = 3
    /\ b_fields[1].width = 9
    /\ b_fields[2].width = 3
    /\ b_vals[2] # b_fields[2].value

ChunkRead == pc \notin {"c_load_world", "c_chunk_file", "c_failed"}

\* C12: an input of length L gives ceil(L / CHUNK_SIZE) chunks of exactly
\* CHUNK_SIZE bytes whose concatenation is the input followed by
\* (-L) mod CHUNK_SIZE zero bytes, and orig_len = L; no chunk for L = 0 and
\* no padding when L is a multiple of CHUNK_SIZE
C12_Chunker ==
    ChunkRead =>
        LET L == Len(infile)
            padlen == (CHUNK_SIZE - (L % CHUNK_SIZE)) % CHUNK_SIZE
        IN  /\ Len(chunks) = (L + CHUNK_SIZE - 1) \div CHUNK_SIZE
            /\ \A p \in 1..Len(chunks) : Len(chunks[p]) = CHUNK_SIZE
            /\ JoinChunks(chunks, CHUNK_SIZE) = infile \o Repeat(<<0>>, padlen)
            /\ orig_len = L
            /\ L = 0 => chunks = <<>>
            /\ L % CHUNK_SIZE = 0 => JoinChunks(chunks, CHUNK_SIZE) = infile

C12_Witness ==
    /\ ChunkRead
    /\ Len(infile) = CHUNK_SIZE + 1
    /\ Len(chunks) = 2
    /\ Slice(chunks[2], 1, CHUNK_SIZE) = Repeat(<<0>>, CHUNK_SIZE - 1)

(***************************************************************************)
(* The GUI (compress_with_world_gui.py): button clicks handled by run_op   *)
(* on the main loop, and the steps of target() on background threads       *)
(***************************************************************************)
\* the ways the codec call can end: it returns, it raises SystemExit with
\* one of the fatal messages, or it raises an ordinary Exception
CodecOutcomes == {"returned"} \cup FatalErrors \cup {GzipError}

IsSystemExit(o) == o \in FatalErrors

NewWorker(b) ==
    [op |-> b, pc |-> "start", exc |-> "none", reported |-> "none"]

MissingDialog ==
    [kind |-> "error", title |-> "Missing",
     text |-> "Please select input and output files"]

Clicks ==
    Len(workers)
    + Cardinality({k \in 1..Len(dialogs) : dialogs[k] = MissingDialog})

InFlight(b) ==
    {k \in 1..Len(workers) : workers[k].op = b /\ workers[k].pc # "exited"}

InitGui ==
    /\ CodecInit({<<>>}, {ValidWorld}, {NoFile})
    /\ GuiInit
    /\ BitsInit({<<>>})

\* run_op(op, ...): a click on an enabled button; without both paths an
\* error box, else a new daemon thread running target()
Click(b) ==
    /\ btn_state[b] = "normal"
    /\ Clicks < MaxClicks
    /\ \E filled \in BOOLEAN :
          IF ~filled
          THEN /\ dialogs' = Append(dialogs, MissingDialog)
               /\ workers' = workers
          ELSE /\ workers' = Append(workers, NewWorker(b))
               /\ dialogs' = dialogs
    /\ UNCHANGED <<codecvars, bvars, btn_state, status_lbl, progress>>

\* target(): btn.config(state='disabled'); status 'running...'; progress.start
WStart(k) ==
    /\ workers[k].pc = "start"
    /\ btn_state' = [btn_state EXCEPT ![workers[k].op] = "disabled"]
    /\ status_lbl' = [op |-> workers[k].op, text |-> "running..."]
    /\ progress' = "running"
    /\ workers' = [workers EXCEPT ![k].pc = "call"]
    /\ UNCHANGED <<codecvars, bvars, dialogs>>

\* target(): the call of compress / decompress
WCall(k) ==
    /\ workers[k].pc = "call"
    /\ \E o \in CodecOutcomes :
          workers' = [workers EXCEPT
                         ![k].pc = IF o = "returned" THEN "after"
                                   ELSE IF IsSystemExit(o) THEN "finally"
                                   ELSE "except",
                         ![k].exc = IF o = "returned" THEN "none" ELSE o]
    /\ UNCHANGED <<codecvars, bvars, btn_state, status_lbl, progress, dialogs>>

\* target(): status 'finished' and the 'Done' box
WAfter(k) ==
    /\ workers[k].pc = "after"
    /\ status_lbl' = [op |-> workers[k].op, text |-> "finished"]
    /\ dialogs' = Append(dialogs, [kind |-> "info", title |-> "Done",
                                   text |-> "finished"])
    /\ workers' = [workers EXCEPT ![k].pc = "finally",
                                  ![k].reported = "finished"]
    /\ UNCHANGED <<codecvars, bvars, btn_state, progress>>

\* target(): except Exception as e: messagebox.showerror('Error', str(e))
WExcept(k) ==
    /\ workers[k].pc = "except"
    /\ dialogs' = Append(dialogs, [kind |-> "error", title |-> "Error",
                                   text |-> workers[k].exc])
    /\ workers' = [workers EXCEPT ![k].pc = "finally",
                                  ![k].exc = "none",
                                  ![k].reported = "error"]
    /\ UNCHANGED <<codecvars, bvars, btn_state, status_lbl, progress>>

\* target(): finally: progress.stop(); btn.config(state='normal'); a pending
\* SystemExit then ends the thread silently
WFinally(k) ==
    /\ workers[k].pc = "finally"
    /\ progress' = "stopped"
    /\ btn_state' = [btn_state EXCEPT ![workers[k].op] = "normal"]
    /\ workers' = [workers EXCEPT ![k].pc = "exited"]
    /\ UNCHANGED <<codecvars, bvars, status_lbl, dialogs>>

ClickAny == \E b \in Buttons : Click(b)

WorkerStep ==
    \E k \in 1..Len(workers) :
        WStart(k) \/ WCall(k) \/ WAfter(k) \/ WExcept(k) \/ WFinally(k)

NextGui == ClickAny \/ WorkerStep

\* up to MaxClicks clicks, interleaved with the worker threads' steps
SpecGui == InitGui /\ [][NextGui]_vars

\* C13: at most one compress operation and at most one decompress operation
\* is in flight at any time, under every interleaving of clicks and worker
\* steps
C13_NoReentrantTrigger ==
    \A b \in Buttons : Cardinality(InFlight(b)) <= 1

\* C14: every background operation reports a finished status or an error
\* status, whatever way the codec call ends (stated for the threads that
\* have ended)
C14_EveryWorkerReports ==
    \A k \in 1..Len(workers) :
        workers[k].pc = "exited" => workers[k].reported \in {"finished", "error"}

(***************************************************************************)
(* Run splitting, alignment, marker, termination                           *)
(***************************************************************************)
GroupRuns == [k \in 1..Len(groups) |-> groups[k].run]

\* number of chunks covered by the first k groups
Covered(k) == SumSeq(SubSeq(GroupRuns, 1, k))

DecodedRuns == pc \in {"d_marker", "d_trailer", "d_patch", "d_write", "d_done"}

\* C15: the sub-runs of a maximal run sum to its length: the groups emitted
\* so far plus the remainder cover exactly the chunks up to the end of the
\* current run, and every group lies inside one run of equal types; an
\* extended group has a length 8 * (M + 1) <= 256, within the remaining
\* count, a short group a length in 1..8; the decoder leaves its run loop
\* with expanded = chunk_count, never above it
C15_RunSplitting ==
    /\ rem >= 0
    /\ pc = "c_runs" => Covered(Len(groups)) + rem = (IF rem > 0 THEN j ELSE i)
    /\ \A k \in 1..Len(groups) :
          /\ groups[k].F = 1 => /\ groups[k].run % 8 = 0
                                /\ groups[k].run \in 8..256
          /\ groups[k].F = 0 => groups[k].run \in 1..8
          /\ Covered(k) <= Len(types)
          /\ types[Covered(k - 1) + 1] = groups[k].t
          /\ types[Covered(k)] = groups[k].t
    /\ Written => Covered(Len(groups)) = Len(chunks)
    /\ pc = "d_runs" => expanded < chunks_count
    /\ DecodedRuns => /\ expanded = chunks_count
                      /\ chunks_count = Len(chunks)

\* a run of 514 equal chunks written as 256 + 256 + 2 and decoded
C15_Witness ==
    /\ DecodedRuns
    /\ expanded = 514
    /\ GroupRuns = <<256, 256, 2>>

\* bits written before the flush: the field groups and the marker
StreamBits == FieldBits(groups) + MARKER_BITS

ExtrasLenAt(dat, p) == FromBytesLE(Slice(dat, p, p + 4))

\* C16: the bitstream of a container written by compress is
\* ceil((field bits + 9) / 8) bytes long and is followed by the extras
\* length; once the decoder has expanded chunk_count chunks and consumed the
\* marker, its byte cursor is at the first byte of that length field, and
\* the length and payload it then reads are the ones written
C16_ByteAlignment ==
    /\ Written
          => /\ Len(bw.out_bits) = (StreamBits + 7) \div 8
             /\ Intact
                   => /\ Len(cfile.bytes) = HEADER_LEN + Len(bw.out_bits) + 4
                                            + Len(ExtrasBlob(extras))
                      /\ ExtrasLenAt(cfile.bytes, HEADER_LEN + Len(bw.out_bits))
                            = Len(ExtrasBlob(extras))
    /\ (Intact /\ pc = "d_trailer")
          => /\ ones = MARKER_BITS
             /\ br.pos = HEADER_LEN + Len(bw.out_bits)
             /\ br.bitlen = (8 - (StreamBits % 8)) % 8
    /\ (Intact /\ pc \in {"d_patch", "d_write", "d_done"})
          => /\ br.pos = HEADER_LEN + Len(bw.out_bits)
             /\ ExtrasLenAt(data, br.pos) = Len(ExtrasBlob(extras))
             /\ d_extras = JoinChunks(extras, CHUNK_SIZE)

\* a decoded container with literal chunks whose marker ends exactly on a byte
\* boundary, so that no partial byte was flushed or discarded
C16_Witness ==
    /\ pc = "d_done"
    /\ StreamBits = 72
    /\ Len(bw.out_bits) = 9
    /\ extras # <<>>
    /\ d_extras = JoinChunks(extras, CHUNK_SIZE)

\* bit n (0-based) of a byte sequence filled least significant bit first
Bit(bytes, n) == (bytes[(n \div 8) + 1] \div Pow2(n % 8)) % 2

\* nine consecutive one-bits lying wholly inside the field groups
NineOnesInFields ==
    \E s \in 0..(FieldBits(groups) - MARKER_BITS) :
        \A k \in 0..(MARKER_BITS - 1) : Bit(bw.out_bits, s + k) = 1

\* bits the reader has taken from the bitstream
ConsumedBits == 8 * (br.pos - HEADER_LEN) - br.bitlen

\* C17 (as stated): nine consecutive one-bits never occur in the bit
\* sequence of the field groups that precede the marker
C17_NoNineOnesInFields == Written => ~NineOnesInFields

\* C17 (amended): the marker is found by position, not by its pattern: the
\* decoder is at a group boundary after every group, starts the marker scan
\* only when chunk_count chunks are expanded, which is at the first bit
\* after the last group, and the scan takes exactly the nine marker bits
C17_MarkerFoundByPosition ==
    /\ (Intact /\ pc = "d_runs")
          => \E k \in 0..Len(groups) :
                /\ Covered(k) = expanded
                /\ ConsumedBits = FieldBits(SubSeq(groups, 1, k))
    /\ (Intact /\ pc \in {"d_marker", "d_trailer"})
          => /\ expanded = Len(chunks)
             /\ ones \in 0..MARKER_BITS
             /\ ConsumedBits = FieldBits(groups) + ones
    /\ (Intact /\ pc = "d_trailer") => ones = MARKER_BITS

\* the fields hold nine consecutive ones (an extended group with M = 31) and
\* the decoder has still consumed the marker at its place
C17_Witness ==
    /\ Intact
    /\ pc = "d_trailer"
    /\ NineOnesInFields
    /\ \E k \in 1..Len(groups) : groups[k].run = 256
    /\ ones = MARKER_BITS

\* bits the reader can still take from the data
RemainingBits == 8 * (Len(data) - br.pos) + br.bitlen

\* while rem > 0: every emission leaves a smaller remainder, never below 0
EncoderProgress == (pc = "c_runs" /\ rem > 0) => (0 <= rem' /\ rem' < rem)

\* while expanded < chunks_count: every group adds at least one chunk, or
\* the loop ends with TruncatedStream
DecoderProgress ==
    pc = "d_runs" => \/ pc' = "d_failed" /\ err' = TruncatedStream
                     \/ /\ pc' \in {"d_runs", "d_marker"}
                        /\ expanded < chunks_count
                        /\ expanded' > expanded

\* while ones < 9: every step takes one bit, until nine ones are seen or
\* the data is exhausted
ScanProgress ==
    pc = "d_marker" => \/ /\ pc' = "d_marker"
                          /\ ones' < MARKER_BITS
                          /\ RemainingBits' = RemainingBits - 1
                       \/ /\ pc' = "d_trailer"
                          /\ \/ /\ ones' = MARKER_BITS
                                /\ RemainingBits' = RemainingBits - 1
                             \/ /\ RemainingBits = 0
                                /\ ones' = ones

CompressEnded == pc \notin {"c_load_world", "c_chunk_file", "c_classify",
                            "c_runs", "c_write"}

\* C18: every compress call and every decompress call ends, in completion
\* or in failure; each emission decreases the encoder's remainder, each
\* decoded group increases the expanded count unless the stream is
\* truncated, and the marker scan takes one bit per step until nine ones
\* are seen or the input is exhausted
C18_Termination ==
    /\ [][EncoderProgress /\ DecoderProgress /\ ScanProgress]_vars
    /\ <>CompressEnded
    /\ (pc = "c_done") ~> Finished

\* a decompress call that has ended after a run split into two sub-runs
C18_Witness ==
    /\ pc = "d_done"
    /\ GroupRuns = <<8, 1>>
    /\ expanded = 9
    /\ ones = MARKER_BITS

\* the CHUNK_SIZE bytes of slot c (1-based) of a buffer
Slot(buf, c) == Slice(buf, (c - 1) * CHUNK_SIZE, c * CHUNK_SIZE)

\* C19: whatever the length of the decompressed extras payload, the patch
\* pass changes only the slots of the recorded Type-15 positions: the
\* buffer keeps its length of expanded * CHUNK_SIZE bytes, and every
\* dictionary-typed chunk keeps its bytes and its offset
C19_PatchFrame ==
    pc \in {"d_write", "d_done"}
        => /\ Len(restored) = expanded * CHUNK_SIZE
           /\ Len(out_bytes) = Len(restored)
           /\ \A c \in 1..Len(dtypes) :
                 dtypes[c] # 15 => Slot(out_bytes, c) = Slot(restored, c)

\* C20: the "M < 0" branch is never taken: whenever the extended branch is
\* entered (rem > 8), small_run is 8 and M = min(31, rem // 8 - 1) is in
\* 0..31; so every short-form length field is written from a run of at
\* most 8
C20_FallbackUnreachable ==
    /\ \A k \in 1..Len(groups) :
          /\ groups[k].branch \in {"short", "extended"}
          /\ groups[k].F = 0 => groups[k].run \in 1..8
    /\ (pc = "c_runs" /\ rem > 8)
          => /\ SmallRun(rem) = 8
             /\ Multiplier(rem, SmallRun(rem)) \in 0..31
             /\ EmitSubRun(bw, types[i + 1], rem).branch = "extended"

\* the extended branch was entered with rem = 257 and left 1 behind
C20_Witness ==
    /\ pc = "c_runs"
    /\ rem = 1
    /\ Len(groups) = 1
    /\ groups[1].branch = "extended"
    /\ groups[1].run = 256

=============================================================================
